---- MODULE Spec2Model ----
(***************************************************************************)
(* ZhihuQuestionTracker: the DataManager store (data.py), the DataTracker  *)
(* background thread (tracker.py) and the calls the GUI thread makes on    *)
(* them (gui.py).  Two threads run: "w", the DataTracker thread started in *)
(* GUI.__init__, and "f", the GUI (foreground) thread.  The code takes no  *)
(* lock, so the steps of the two threads interleave.                       *)
(***************************************************************************)
EXTENDS Integers, Sequences, FiniteSets, TLC

\* ------------------------------------------------------------ bounds
\* DataManager(max_history=...): the retention window.
MaxHistory == 2
\* Update cycles (calls of fetch_data) in one run of the model.
MaxCycles == 2
\* Calls of add_to_watched and remove_from_watched in one run of the model.
MaxFgCalls == 1
\* Calls of the watch and registry operations in one run of the model in which
\* the DataTracker thread is not started.
MaxApiCalls == 3

\* ------------------------------------------------------------ inputs
Threads == {"w", "f"}
Ids == {"a", "b"}
\* The DataListener instances; "o1" is the GUI.
Observers == {"o1", "o2"}

\* One item of fetch_data's result: the fields update_questions and
\* get_question_list read.
RawItem(u, v, a, p) ==
  [question_url |-> u, view_total |-> v, answer_total |-> a, potential_score |-> p]

\* What fetch_data may return: a single item, a batch of two identities, a
\* batch that carries one identity twice (its score first below, then above
\* the score of "b").
Batches ==
  { << RawItem("a", 1, 1, 1) >>,
    << RawItem("a", 2, 1, 2), RawItem("b", 1, 1, 3) >>,
    << RawItem("a", 2, 2, 1), RawItem("a", 1, 1, 4) >> }

VARIABLES
  questions,          \* DataManager.questions: url -> history (oldest first)
  qkeys,              \* the keys of DataManager.questions, in insertion order
  watched,            \* DataManager.watched_questions, in insertion order
  data_file,          \* the items file (questions.json)
  watched_file,       \* the watched file (watched_questions.json)
  listeners,          \* EventSource._listeners
  data,               \* EventSource._data: << >> is None, << x >> the value x
  stop_event,         \* DataTracker.stop_event
  refresh_event,      \* DataTracker.refresh_event
  last_refresh_time,  \* DataTracker.last_refresh_time: ordinal of the last cycle
  interval_elapsed,   \* the timeout of the running stop_event.wait(interval) has passed
  pc,                 \* each thread's position
  batch,              \* new_data / new_questions of the thread's cycle
  idx,                \* loop index (items of the batch, then listeners)
  href,               \* the list `history` refers to: the stored one or an orphan
  changes,            \* the ChangeRecord under construction
  pu_result,          \* what the perform_update running or just returned printed last
  fg_calls,           \* number of watch and registry calls the GUI thread made
  merged,             \* history variable: every snapshot merged, per url
  pre,                \* history variable: the Store when the merge began
  raced,              \* history variable: two calls of update_questions overlapped
  persist,            \* history variable: "failed" since a write of the items file
                      \* failed, "healed" while the listeners hear of the first
                      \* merge written after that, "no" otherwise
  trip                \* history variable: what the last watch or registry call of
                      \* the only thread did: took an entry out of the Watch Set,
                      \* put back the one the call before took out, changed nothing

shared == << questions, qkeys, watched, data_file, watched_file, listeners, data,
             stop_event, refresh_event, last_refresh_time, interval_elapsed >>
locals == << pc, batch, idx, href, changes, pu_result, fg_calls >>
ghosts == << merged, pre, raced, persist, trip >>
vars == << shared, locals, ghosts >>

\* ------------------------------------------------------------ helpers
Last(s) == s[Len(s)]
Range(s) == { s[i] : i \in 1..Len(s) }
HasKey(u) == u \in Range(qkeys)
NoChanges == [updated |-> << >>, new |-> << >>]
EmptyStore == [keys |-> << >>, hist |-> [u \in Ids |-> << >>]]
Store == [keys |-> qkeys, hist |-> questions]
WatchedKeys == [i \in 1..Len(watched) |-> watched[i].url]
IsWatched(u) == \E i \in 1..Len(watched) : watched[i].url = u

\* ------------------------------------------------------------ pure functions
\* update_question_history, run alone: append, then drop the oldest entries
\* while the history is longer than max_history.
Trim(h) == IF Len(h) > MaxHistory THEN SubSeq(h, Len(h) - MaxHistory + 1, Len(h)) ELSE h
MergeItem(st, q) ==
  [keys |-> IF q.question_url \in Range(st.keys) THEN st.keys
            ELSE Append(st.keys, q.question_url),
   hist |-> [st.hist EXCEPT ![q.question_url] = Trim(Append(@, q))]]

\* The loop of update_questions over a batch, run alone.
RECURSIVE MergeAll(_, _)
MergeAll(st, b) == IF b = << >> THEN st ELSE MergeAll(MergeItem(st, Head(b)), Tail(b))

\* Classify without the else branch: an item new to the Store is not recorded.
ClassifyNoNew(st, q, ch) ==
  LET u == q.question_url IN
  IF u \in Range(st.keys) /\ st.hist[u] # << >>
  THEN LET old == Last(st.hist[u])
           view_increment == q.view_total - old.view_total
           answer_increment == q.answer_total - old.answer_total
       IN IF view_increment # 0 \/ answer_increment # 0
          THEN [ch EXCEPT !.updated = Append(@, [question_url |-> u,
                                                  view_increment |-> view_increment,
                                                  answer_increment |-> answer_increment])]
          ELSE ch
  ELSE ch

\* Classify with `if view_increment:` alone: a change of answer_total only
\* is not recorded.
ClassifyViewOnly(st, q, ch) ==
  LET u == q.question_url IN
  IF u \in Range(st.keys) /\ st.hist[u] # << >>
  THEN LET old == Last(st.hist[u])
           view_increment == q.view_total - old.view_total
           answer_increment == q.answer_total - old.answer_total
       IN IF view_increment # 0
          THEN [ch EXCEPT !.updated = Append(@, [question_url |-> u,
                                                  view_increment |-> view_increment,
                                                  answer_increment |-> answer_increment])]
          ELSE ch
  ELSE [ch EXCEPT !.new = Append(@, q)]

\* The entry update_questions records for item q against the Store st.
Classify(st, q, ch) ==
  LET u == q.question_url IN
  IF u \in Range(st.keys) /\ st.hist[u] # << >>
  THEN LET old == Last(st.hist[u])
           view_increment == q.view_total - old.view_total
           answer_increment == q.answer_total - old.answer_total
       IN IF view_increment # 0 \/ answer_increment # 0
          THEN [ch EXCEPT !.updated = Append(@, [question_url |-> u,
                                                  view_increment |-> view_increment,
                                                  answer_increment |-> answer_increment])]
          ELSE ch
  ELSE [ch EXCEPT !.new = Append(@, q)]

\* sorted(self.questions.items(), key=first snapshot's potential_score,
\* reverse=True): a stable sort, equal scores keep the key order.
SortedKeys(st) ==
  LET n == Len(st.keys)
      score(i) == st.hist[st.keys[i]][1].potential_score
      rank(i) == 1 + Cardinality({ j \in 1..n : \/ score(j) > score(i)
                                                \/ score(j) = score(i) /\ j < i })
  IN [r \in 1..n |-> st.keys[CHOOSE i \in 1..n : rank(i) = r]]

\* get_question_list raises IndexError: the sort key x[1][0] meets a key
\* whose history is empty.
GetQuestionListRaises(st) ==
  \E i \in 1..Len(st.keys) : st.hist[st.keys[i]] = << >>

\* GetQuestionList without the test `key not in question_id_list`: a watched
\* url is listed again by the second loop.
GetQuestionListTwice(st, wk) ==
  LET present(u) == u \in Range(st.keys) /\ st.hist[u] # << >>
      ids == SelectSeq(wk, present) \o SortedKeys(st)
  IN [i \in 1..Len(ids) |-> Last(st.hist[ids[i]])]

\* GetQuestionList without the first loop: the watched urls are not put first.
GetQuestionListUnpinned(st, wk) ==
  LET ids == SortedKeys(st)
  IN [i \in 1..Len(ids) |-> Last(st.hist[ids[i]])]

\* get_question_list: the watched urls that have a history, in watch order,
\* then the others in the order of the sort; the last snapshot of each.
GetQuestionList(st, wk) ==
  LET present(u) == u \in Range(st.keys) /\ st.hist[u] # << >>
      first == SelectSeq(wk, present)
      fresh(u) == u \notin Range(first)
      ids == first \o SelectSeq(SortedKeys(st), fresh)
  IN [i \in 1..Len(ids) |-> Last(st.hist[ids[i]])]

\* A file: never written, written whole, or left cut short by a failed write.
NoFile == [state |-> "absent", data |-> << >>]
Written(d) == [state |-> "written", data |-> << d >>]
CutShort == [state |-> "partial", data |-> << >>]

\* ------------------------------------------------------------ positions
\* Inside the loop of update_questions; inside update_questions; inside a
\* mutation of the Store or the Watch Set up to its file write.
MergePcs == {"uq_item", "uqh_new", "uqh_append", "uqh_trim"}
UpdatePcs == MergePcs \cup {"uq_save", "nl_loop"}
WritePcs == MergePcs \cup {"uq_save", "w_save"}
CyclePcs == UpdatePcs \cup {"pu_fetch"}
Overlap == pc["w"] \in UpdatePcs /\ pc["f"] \in UpdatePcs
Item(t) == batch[t][idx[t]]
Url(t) == Item(t).question_url

\* A projection taken now shows a Store that is neither the one a running
\* merge started from nor the one it will leave when run alone.
Torn ==
  \E t \in Threads : /\ pc[t] \in MergePcs
                     /\ Store # pre[t]
                     /\ Store # MergeAll(pre[t], batch[t])

RaceGhost == raced' = (raced \/ Overlap')

Init ==
  /\ questions = [u \in Ids |-> << >>]
  /\ qkeys = << >>
  /\ watched = << >>
  /\ data_file = NoFile
  /\ watched_file = NoFile
  /\ listeners = << "o1", "o2" >>
  /\ data = << >>
  /\ stop_event = FALSE
  /\ refresh_event = FALSE
  /\ last_refresh_time = 0
  /\ interval_elapsed = FALSE
  /\ pc = [t \in Threads |-> IF t = "w" THEN "run_test" ELSE "gui_run"]
  /\ batch = [t \in Threads |-> << >>]
  /\ idx = [t \in Threads |-> 1]
  /\ href = [t \in Threads |-> "none"]
  /\ changes = [t \in Threads |-> NoChanges]
  /\ pu_result = [t \in Threads |-> "none"]
  /\ fg_calls = 0
  /\ merged = [u \in Ids |-> << >>]
  /\ pre = [t \in Threads |-> EmptyStore]
  /\ raced = FALSE
  /\ persist = "no"
  /\ trip = << >>

\* ------------------------------------------------------------ perform_update
\* perform_update is entered: the first print, last_refresh_time is set.
PuEnter(t) ==
  /\ last_refresh_time < MaxCycles
  /\ last_refresh_time' = last_refresh_time + 1
  /\ pu_result' = [pu_result EXCEPT ![t] = "fetching"]
  /\ pc' = [pc EXCEPT ![t] = "pu_fetch"]

\* perform_update returns: to run, which waits next, in the DataTracker
\* thread; to refresh in the GUI thread.  Its locals are gone.
PuReturn(t, printed) ==
  /\ pu_result' = [pu_result EXCEPT ![t] = printed]
  /\ pc' = [pc EXCEPT ![t] = IF t = "w" THEN "wait" ELSE "rf_set"]
  /\ interval_elapsed' = IF t = "w" THEN FALSE ELSE interval_elapsed
  /\ batch' = [batch EXCEPT ![t] = << >>]
  /\ idx' = [idx EXCEPT ![t] = 1]
  /\ changes' = [changes EXCEPT ![t] = NoChanges]
  /\ pre' = [pre EXCEPT ![t] = EmptyStore]
  /\ UNCHANGED << questions, qkeys, watched, watched_file, listeners, data, stop_event,
                  refresh_event, last_refresh_time, href,
                  fg_calls, merged, raced, trip >>

\* fetch_data returns a batch and update_questions starts on it.
Fetch(t) ==
  /\ pc[t] = "pu_fetch"
  /\ \E b \in Batches : batch' = [batch EXCEPT ![t] = b]
  /\ idx' = [idx EXCEPT ![t] = 1]
  /\ changes' = [changes EXCEPT ![t] = NoChanges]
  /\ pre' = [pre EXCEPT ![t] = Store]
  /\ pc' = [pc EXCEPT ![t] = "uq_item"]
  /\ RaceGhost
  /\ UNCHANGED << shared, href, pu_result, fg_calls, merged, persist, trip >>

\* FetchFail without the except clause: the exception ends the thread.
FetchFailUncaught(t) ==
  /\ pc[t] = "pu_fetch"
  /\ pc' = [pc EXCEPT ![t] = IF t = "w" THEN "exited" ELSE "crashed"]
  /\ UNCHANGED << shared, batch, idx, href, changes, pu_result, fg_calls, ghosts >>

\* fetch_data raises: the except clause prints and perform_update returns.
FetchFail(t) ==
  /\ pc[t] = "pu_fetch"
  /\ PuReturn(t, "error")
  /\ UNCHANGED << data_file, persist >>

\* ------------------------------------------------------------ update_questions
\* The body of the loop up to `history = self.questions[question_url]`:
\* the change record, and the test `question_url not in self.questions`.
UqItem(t) ==
  /\ pc[t] = "uq_item"
  /\ changes' = [changes EXCEPT ![t] = Classify(Store, Item(t), @)]
  /\ href' = [href EXCEPT ![t] = IF HasKey(Url(t)) THEN "stored" ELSE @]
  /\ pc' = [pc EXCEPT ![t] = IF HasKey(Url(t)) THEN "uqh_append" ELSE "uqh_new"]
  /\ UNCHANGED << shared, batch, idx, pu_result, fg_calls, ghosts >>

\* UqhNew with the list of the item before: self.questions[question_url]
\* starts as the history the loop handled last, not as [].
UqhNewShared(t) ==
  /\ pc[t] = "uqh_new"
  /\ questions' = [questions EXCEPT ![Url(t)] =
                     IF idx[t] > 1 THEN questions[batch[t][idx[t] - 1].question_url]
                     ELSE << >>]
  /\ qkeys' = IF HasKey(Url(t)) THEN qkeys ELSE Append(qkeys, Url(t))
  /\ href' = [href EXCEPT ![t] = "stored"]
  /\ pc' = [pc EXCEPT ![t] = "uqh_append"]
  /\ UNCHANGED << watched, data_file, watched_file, listeners, data, stop_event,
                  refresh_event, last_refresh_time, interval_elapsed,
                  batch, idx, changes, pu_result, fg_calls, ghosts >>

\* self.questions[question_url] = []; history = self.questions[question_url].
\* A list another thread holds for this url is no longer the stored one.
UqhNew(t) ==
  /\ pc[t] = "uqh_new"
  /\ questions' = [questions EXCEPT ![Url(t)] = << >>]
  /\ qkeys' = IF HasKey(Url(t)) THEN qkeys ELSE Append(qkeys, Url(t))
  /\ href' = [x \in Threads |->
                IF x = t THEN "stored"
                ELSE IF href[x] = "stored" /\ Url(x) = Url(t) THEN "orphan"
                ELSE href[x]]
  /\ pc' = [pc EXCEPT ![t] = "uqh_append"]
  /\ UNCHANGED << watched, data_file, watched_file, listeners, data, stop_event,
                  refresh_event, last_refresh_time, interval_elapsed,
                  batch, idx, changes, pu_result, fg_calls, ghosts >>

\* update_question_history returns and the for loop takes the next item or
\* ends.
NextItem(t) ==
  /\ href' = [href EXCEPT ![t] = "none"]
  /\ idx' = [idx EXCEPT ![t] = IF @ < Len(batch[t]) THEN @ + 1 ELSE 1]
  /\ pc' = [pc EXCEPT ![t] = IF idx[t] < Len(batch[t]) THEN "uq_item" ELSE "uq_save"]

\* The test of `while len(history) > self.max_history`, after h was stored.
TrimOrNext(t, h) ==
  IF href[t] = "stored" /\ Len(h) > MaxHistory
  THEN /\ pc' = [pc EXCEPT ![t] = "uqh_trim"]
       /\ UNCHANGED << href, idx >>
  ELSE NextItem(t)

\* history.append(new_data), and the first test of the while loop.
UqhAppend(t) ==
  /\ pc[t] = "uqh_append"
  /\ questions' = IF href[t] = "stored"
                  THEN [questions EXCEPT ![Url(t)] = Append(@, Item(t))]
                  ELSE questions
  /\ merged' = [merged EXCEPT ![Url(t)] = Append(@, Item(t))]
  /\ TrimOrNext(t, questions'[Url(t)])
  /\ UNCHANGED << qkeys, watched, data_file, watched_file, listeners, data, stop_event,
                  refresh_event, last_refresh_time, interval_elapsed,
                  batch, changes, pu_result, fg_calls, pre, raced, persist, trip >>

\* UqhPop with the wrong end: history.pop() drops the newest entry.
UqhPopNewest(t) ==
  /\ pc[t] = "uqh_trim"
  /\ questions' = IF href[t] = "stored"
                  THEN [questions EXCEPT ![Url(t)] = SubSeq(@, 1, Len(@) - 1)]
                  ELSE questions
  /\ TrimOrNext(t, questions'[Url(t)])
  /\ UNCHANGED << qkeys, watched, data_file, watched_file, listeners, data, stop_event,
                  refresh_event, last_refresh_time, interval_elapsed,
                  batch, changes, pu_result, fg_calls, ghosts >>

\* history.pop(0), and the next test of the while loop.
UqhPop(t) ==
  /\ pc[t] = "uqh_trim"
  /\ questions' = IF href[t] = "stored"
                  THEN [questions EXCEPT ![Url(t)] = Tail(@)]
                  ELSE questions
  /\ TrimOrNext(t, questions'[Url(t)])
  /\ UNCHANGED << qkeys, watched, data_file, watched_file, listeners, data, stop_event,
                  refresh_event, last_refresh_time, interval_elapsed,
                  batch, changes, pu_result, fg_calls, ghosts >>

\* SaveData with the write left out: the listeners are notified of a Store
\* the file does not hold yet.
SaveDataSkipped(t) ==
  /\ pc[t] = "uq_save"
  /\ pc' = [pc EXCEPT ![t] = "nl_loop"]
  /\ UNCHANGED << shared, batch, idx, href, changes, pu_result, fg_calls, ghosts >>

\* SaveData that writes the urls of this batch only: what an earlier merge
\* added and did not get written stays out of the file.
SaveDataBatchOnly(t) ==
  /\ pc[t] = "uq_save"
  /\ data_file' = Written([keys |-> SelectSeq(qkeys, LAMBDA u :
                                        \E i \in 1..Len(batch[t]) :
                                          batch[t][i].question_url = u),
                           hist |-> [u \in Ids |->
                                       IF \E i \in 1..Len(batch[t]) :
                                            batch[t][i].question_url = u
                                       THEN questions[u] ELSE << >>]])
  /\ persist' = IF persist = "failed" THEN "healed" ELSE "no"
  /\ pc' = [pc EXCEPT ![t] = "nl_loop"]
  /\ UNCHANGED << questions, qkeys, watched, watched_file, listeners, data, stop_event,
                  refresh_event, last_refresh_time, interval_elapsed,
                  batch, idx, href, changes, pu_result,
                  fg_calls, merged, pre, raced, trip >>

\* save_data(self.questions, self.data_file) writes the whole Store.
SaveData(t) ==
  /\ pc[t] = "uq_save"
  /\ data_file' = Written(Store)
  /\ persist' = IF persist = "failed" THEN "healed" ELSE "no"
  /\ pc' = [pc EXCEPT ![t] = "nl_loop"]
  /\ UNCHANGED << questions, qkeys, watched, watched_file, listeners, data, stop_event,
                  refresh_event, last_refresh_time, interval_elapsed,
                  batch, idx, href, changes, pu_result,
                  fg_calls, merged, pre, raced, trip >>

\* SaveDataFail with a rollback: the Store is put back to what it was when
\* the merge began.
SaveDataFailRollback(t) ==
  /\ pc[t] = "uq_save"
  /\ data_file' \in {data_file, CutShort}
  /\ questions' = pre[t].hist
  /\ qkeys' = pre[t].keys
  /\ persist' = "failed"
  /\ pu_result' = [pu_result EXCEPT ![t] = "error"]
  /\ pc' = [pc EXCEPT ![t] = IF t = "w" THEN "wait" ELSE "rf_set"]
  /\ interval_elapsed' = IF t = "w" THEN FALSE ELSE interval_elapsed
  /\ batch' = [batch EXCEPT ![t] = << >>]
  /\ idx' = [idx EXCEPT ![t] = 1]
  /\ changes' = [changes EXCEPT ![t] = NoChanges]
  /\ pre' = [pre EXCEPT ![t] = EmptyStore]
  /\ UNCHANGED << watched, watched_file, listeners, data, stop_event, refresh_event,
                  last_refresh_time, href, fg_calls, merged, raced, trip >>

\* save_data raises (open fails: the file is as it was; the dump fails: the
\* file is cut short); the exception leaves update_questions.
SaveDataFail(t) ==
  /\ pc[t] = "uq_save"
  /\ data_file' \in {data_file, CutShort}
  /\ persist' = "failed"
  /\ PuReturn(t, "error")

\* ------------------------------------------------------------ _notify_listeners
\* The argument of listener.update(self._data).
UpdateArg == data

\* listener.update(self._data) returns.  "o1" is the GUI, whose update calls
\* refresh_list and so get_question_list.
Notify(t) ==
  /\ pc[t] = "nl_loop"
  /\ idx[t] <= Len(listeners)
  /\ listeners[idx[t]] = "o1" => ~GetQuestionListRaises(Store)
  /\ idx' = [idx EXCEPT ![t] = @ + 1]
  /\ UNCHANGED << questions, qkeys, watched, data_file, watched_file, listeners, data,
                  stop_event, refresh_event, last_refresh_time, interval_elapsed,
                  pc, batch, href, changes, pu_result, fg_calls, merged,
                  pre, raced, persist, trip >>

\* listener.update raises: the exception leaves _notify_listeners and
\* update_questions, and the except clause of perform_update prints it.
NotifyFail(t) ==
  /\ pc[t] = "nl_loop"
  /\ idx[t] <= Len(listeners)
  /\ PuReturn(t, "error")
  /\ persist' = IF persist = "healed" THEN "no" ELSE persist
  /\ UNCHANGED data_file

\* The loop over the listeners ends; update_questions returns the changes
\* and perform_update prints them.
NotifyDone(t) ==
  /\ pc[t] = "nl_loop"
  /\ idx[t] > Len(listeners)
  /\ PuReturn(t, "updated")
  /\ persist' = IF persist = "healed" THEN "no" ELSE persist
  /\ UNCHANGED data_file

\* ------------------------------------------------------------ DataTracker
\* run: while not self.stop_event.is_set() finds the event set.
RunExit ==
  /\ pc["w"] = "run_test"
  /\ stop_event
  /\ pc' = [pc EXCEPT !["w"] = "exited"]
  /\ UNCHANGED << shared, batch, idx, href, changes, pu_result, fg_calls, ghosts >>

\* run: the loop test passes and perform_update is called.
RunCycle ==
  /\ pc["w"] = "run_test"
  /\ ~stop_event
  /\ PuEnter("w")
  /\ UNCHANGED << questions, qkeys, watched, data_file, watched_file, listeners, data,
                  stop_event, refresh_event, interval_elapsed, batch, idx, href, changes, fg_calls, ghosts >>

\* The interval of self.stop_event.wait(self.interval) runs out.
IntervalElapses ==
  /\ pc["w"] = "wait"
  /\ ~interval_elapsed
  /\ interval_elapsed' = TRUE
  /\ UNCHANGED << questions, qkeys, watched, data_file, watched_file, listeners, data,
                  stop_event, refresh_event, last_refresh_time, locals, ghosts >>

\* WaitOver with time.sleep(self.interval) for the wait: only the interval
\* ends it.
WaitOverAtTimeout == interval_elapsed

\* What ends self.stop_event.wait(self.interval).
WaitOver == stop_event \/ interval_elapsed

\* self.stop_event.wait(self.interval) returns.
Wait ==
  /\ pc["w"] = "wait"
  /\ WaitOver
  /\ pc' = [pc EXCEPT !["w"] = "run_clear"]
  /\ interval_elapsed' = FALSE
  /\ pu_result' = [pu_result EXCEPT !["w"] = "none"]
  /\ UNCHANGED << questions, qkeys, watched, data_file, watched_file, listeners, data,
                  stop_event, refresh_event, last_refresh_time, batch, idx, href,
                  changes, fg_calls, ghosts >>

\* if self.refresh_event.is_set(): self.refresh_event.clear()
RunClear ==
  /\ pc["w"] = "run_clear"
  /\ refresh_event' = FALSE
  /\ pc' = [pc EXCEPT !["w"] = "run_test"]
  /\ UNCHANGED << questions, qkeys, watched, data_file, watched_file, listeners, data,
                  stop_event, last_refresh_time, interval_elapsed, batch, idx, href, changes, pu_result, fg_calls, ghosts >>

\* Refresh that hands the cycle off and goes straight on to set the event.
RefreshNoWait ==
  /\ pc["f"] = "idle"
  /\ last_refresh_time < MaxCycles
  /\ last_refresh_time' = last_refresh_time + 1
  /\ pu_result' = [pu_result EXCEPT !["f"] = "fetching"]
  /\ pc' = [pc EXCEPT !["f"] = "rf_set"]
  /\ UNCHANGED << questions, qkeys, watched, data_file, watched_file, listeners, data,
                  stop_event, refresh_event, interval_elapsed,
                  batch, idx, href, changes, fg_calls, ghosts >>

\* refresh calls perform_update in the calling thread.
Refresh ==
  /\ pc["f"] = "idle"
  /\ PuEnter("f")
  /\ UNCHANGED << questions, qkeys, watched, data_file, watched_file, listeners, data,
                  stop_event, refresh_event, interval_elapsed, batch, idx, href, changes, fg_calls, ghosts >>

\* refresh: self.refresh_event.set(), and refresh returns.
RefreshSet ==
  /\ pc["f"] = "rf_set"
  /\ refresh_event' = TRUE
  /\ pc' = [pc EXCEPT !["f"] = "idle"]
  /\ UNCHANGED << questions, qkeys, watched, data_file, watched_file, listeners, data,
                  stop_event, last_refresh_time, interval_elapsed, batch, idx, href, changes, pu_result, fg_calls, ghosts >>

\* GUI.stop: tracker.stop() sets the event and returns; the scrapper is
\* closed and the window destroyed, which ends the GUI thread's main loop.
Stop ==
  /\ pc["f"] = "idle"
  /\ stop_event' = TRUE
  /\ pc' = [pc EXCEPT !["f"] = "closed"]
  /\ UNCHANGED << questions, qkeys, watched, data_file, watched_file, listeners, data,
                  refresh_event, last_refresh_time, interval_elapsed,
                  batch, idx, href, changes, pu_result,
                  fg_calls, merged, pre, raced, persist, trip >>

\* ------------------------------------------------------------ GUI thread
\* GUI.run: refresh_list projects the Store, then the main loop starts.
RefreshList ==
  /\ pc["f"] = "gui_run"
  /\ ~GetQuestionListRaises(Store)
  /\ pc' = [pc EXCEPT !["f"] = "idle"]
  /\ UNCHANGED << questions, qkeys, watched, data_file, watched_file, listeners, data,
                  stop_event, refresh_event, last_refresh_time, interval_elapsed,
                  batch, idx, href, changes, pu_result, fg_calls, merged,
                  pre, raced, persist, trip >>

\* GUI.run: get_question_list raises and the exception ends the GUI thread.
RefreshListRaises ==
  /\ pc["f"] = "gui_run"
  /\ GetQuestionListRaises(Store)
  /\ pc' = [pc EXCEPT !["f"] = "crashed"]
  /\ UNCHANGED << shared, batch, idx, href, changes, pu_result, fg_calls, merged,
                  pre, raced, persist, trip >>

\* add_to_watched reaches self.questions[question_url][-1] with an empty
\* history: IndexError.
AddToWatchedRaises(u) == ~IsWatched(u) /\ HasKey(u) /\ questions[u] = << >>

\* add_to_watched without the test `question_url not in
\* self.watched_questions`: a watched url's snapshot is captured anew.
add_to_watched_again(u) ==
  /\ IF HasKey(u) /\ ~AddToWatchedRaises(u) /\ questions[u] # << >>
     THEN /\ watched' = IF IsWatched(u)
                        THEN [i \in 1..Len(watched) |->
                                IF watched[i].url = u
                                THEN [url |-> u, snap |-> Last(questions[u])]
                                ELSE watched[i]]
                        ELSE Append(watched, [url |-> u, snap |-> Last(questions[u])])
          /\ pc' = [pc EXCEPT !["f"] = "w_save"]
     ELSE UNCHANGED << watched, pc >>
  /\ UNCHANGED << questions, qkeys, data_file, watched_file, listeners, data,
                  stop_event, refresh_event, last_refresh_time, interval_elapsed,
                  batch, idx, href, changes, pu_result, merged,
                  pre, raced, persist >>

\* add_to_watched with self.questions[question_url][0]: the oldest snapshot
\* kept is captured.
add_to_watched_oldest(u) ==
  /\ IF ~IsWatched(u) /\ HasKey(u) /\ ~AddToWatchedRaises(u)
     THEN /\ watched' = Append(watched, [url |-> u, snap |-> questions[u][1]])
          /\ pc' = [pc EXCEPT !["f"] = "w_save"]
     ELSE UNCHANGED << watched, pc >>
  /\ UNCHANGED << questions, qkeys, data_file, watched_file, listeners, data,
                  stop_event, refresh_event, last_refresh_time, interval_elapsed,
                  batch, idx, href, changes, pu_result, merged,
                  pre, raced, persist >>

\* add_to_watched(u) up to the file write.  The IndexError leaves the handler
\* with nothing changed.
add_to_watched(u) ==
  /\ IF ~IsWatched(u) /\ HasKey(u) /\ ~AddToWatchedRaises(u)
     THEN /\ watched' = Append(watched, [url |-> u, snap |-> Last(questions[u])])
          /\ pc' = [pc EXCEPT !["f"] = "w_save"]
     ELSE UNCHANGED << watched, pc >>
  /\ UNCHANGED << questions, qkeys, data_file, watched_file, listeners, data,
                  stop_event, refresh_event, last_refresh_time, interval_elapsed,
                  batch, idx, href, changes, pu_result, merged,
                  pre, raced, persist >>

\* remove_from_watched(u) up to the file write.
remove_from_watched(u) ==
  /\ IF IsWatched(u)
     THEN /\ watched' = SelectSeq(watched, LAMBDA e : e.url # u)
          /\ pc' = [pc EXCEPT !["f"] = "w_save"]
     ELSE UNCHANGED << watched, pc >>
  /\ UNCHANGED << questions, qkeys, data_file, watched_file, listeners, data,
                  stop_event, refresh_event, last_refresh_time, interval_elapsed,
                  batch, idx, href, changes, pu_result, merged,
                  pre, raced, persist >>

\* on_item_checked on a row shown as not watched.
AddToWatched(u) ==
  /\ pc["f"] = "idle"
  /\ fg_calls < MaxFgCalls
  /\ fg_calls' = fg_calls + 1
  /\ add_to_watched(u)
  /\ UNCHANGED trip

\* on_item_checked on a row shown as watched.
RemoveFromWatched(u) ==
  /\ pc["f"] = "idle"
  /\ fg_calls < MaxFgCalls
  /\ fg_calls' = fg_calls + 1
  /\ remove_from_watched(u)
  /\ UNCHANGED trip

\* save_data(self.watched_questions, self.watched_file)
SaveWatched ==
  /\ pc["f"] = "w_save"
  /\ watched_file' = Written(watched)
  /\ pc' = [pc EXCEPT !["f"] = "idle"]
  /\ UNCHANGED << questions, qkeys, watched, data_file, listeners, data, stop_event,
                  refresh_event, last_refresh_time, interval_elapsed,
                  batch, idx, href, changes, pu_result,
                  fg_calls, ghosts >>

\* save_data of the watched file raises.
SaveWatchedFail ==
  /\ pc["f"] = "w_save"
  /\ watched_file' \in {watched_file, CutShort}
  /\ pc' = [pc EXCEPT !["f"] = "idle"]
  /\ UNCHANGED << questions, qkeys, watched, data_file, listeners, data, stop_event,
                  refresh_event, last_refresh_time, interval_elapsed,
                  batch, idx, href, changes, pu_result,
                  fg_calls, ghosts >>

\* ------------------------------------------------------------ specification
Next ==
  \/ \E t \in Threads :
       \/ Fetch(t) \/ FetchFail(t)
       \/ UqItem(t) \/ UqhNew(t) \/ UqhAppend(t) \/ UqhPop(t)
       \/ SaveData(t) \/ SaveDataFail(t)
       \/ Notify(t) \/ NotifyFail(t) \/ NotifyDone(t)
  \/ RunExit \/ RunCycle \/ IntervalElapses \/ Wait \/ RunClear
  \/ Refresh \/ RefreshSet \/ Stop
  \/ RefreshList \/ RefreshListRaises
  \/ \E u \in Ids : AddToWatched(u) \/ RemoveFromWatched(u)
  \/ SaveWatched \/ SaveWatchedFail

Spec == Init /\ [][Next]_vars

\* The behaviours in which the calls of update_questions come one after
\* another: fetch_data returns to a thread, and its update_questions starts,
\* only while the other thread is outside update_questions.
SerialFetch(t) ==
  /\ \A x \in Threads \ {t} : pc[x] \notin UpdatePcs
  /\ Fetch(t)

SerialNext ==
  \/ \E t \in Threads :
       \/ SerialFetch(t) \/ FetchFail(t)
       \/ UqItem(t) \/ UqhNew(t) \/ UqhAppend(t) \/ UqhPop(t)
       \/ SaveData(t) \/ SaveDataFail(t)
       \/ Notify(t) \/ NotifyFail(t) \/ NotifyDone(t)
  \/ RunExit \/ RunCycle \/ IntervalElapses \/ Wait \/ RunClear
  \/ Refresh \/ RefreshSet \/ Stop
  \/ RefreshList \/ RefreshListRaises
  \/ \E u \in Ids : AddToWatched(u) \/ RemoveFromWatched(u)
  \/ SaveWatched \/ SaveWatchedFail

SerialSpec == Init /\ [][SerialNext]_vars

\* ------------------------------------------------------------ fairness
\* The steps of the DataTracker thread, the passing of the interval left out:
\* the thread is scheduled, fetch_data and the listeners return or raise, and
\* a wait whose event is set returns.
WorkerNext ==
  \/ Fetch("w") \/ FetchFail("w")
  \/ UqItem("w") \/ UqhNew("w") \/ UqhAppend("w") \/ UqhPop("w")
  \/ SaveData("w") \/ SaveDataFail("w")
  \/ Notify("w") \/ NotifyFail("w") \/ NotifyDone("w")
  \/ RunExit \/ RunCycle \/ Wait \/ RunClear

\* The program without the watch operations, which change nothing the
\* DataTracker thread reads on its way through the loop.
LiveNext ==
  \/ \E t \in Threads :
       \/ Fetch(t) \/ FetchFail(t)
       \/ UqItem(t) \/ UqhNew(t) \/ UqhAppend(t) \/ UqhPop(t)
       \/ SaveData(t) \/ SaveDataFail(t)
       \/ Notify(t) \/ NotifyFail(t) \/ NotifyDone(t)
  \/ RunExit \/ RunCycle \/ IntervalElapses \/ Wait \/ RunClear
  \/ Refresh \/ RefreshSet \/ Stop
  \/ RefreshList \/ RefreshListRaises

\* That program with a DataTracker thread that keeps running while it can.
LiveSpec == Init /\ [][LiveNext]_vars /\ WF_vars(WorkerNext)

\* ------------------------------------------------------------ caller alone
\* The DataTracker thread is not started (pc["w"] = "unstarted"): one thread
\* calls refresh, the watch operations and the registry operations, each call
\* after the one before has returned.

\* A call of a watch or registry operation by the only thread.
ApiCall ==
  /\ pc["w"] = "unstarted"
  /\ pc["f"] = "idle"
  /\ fg_calls < MaxApiCalls
  /\ fg_calls' = fg_calls + 1

\* The entry the Watch Set holds for u.
WatchedEntry(u) == watched[CHOOSE i \in 1..Len(watched) : watched[i].url = u]

\* add_to_watched(u), called by the only thread.
ApiAddToWatched(u) ==
  /\ ApiCall
  /\ add_to_watched(u)
  /\ trip' = IF trip # << >> /\ trip[1] = "removed" /\ trip[2].url = u
             THEN << "readded", trip[2] >>
             ELSE IF watched' = watched THEN << "kept", "add", u >> ELSE << >>

\* remove_from_watched(u), called by the only thread.
ApiRemoveFromWatched(u) ==
  /\ ApiCall
  /\ remove_from_watched(u)
  /\ trip' = IF IsWatched(u) THEN << "removed", WatchedEntry(u) >>
             ELSE << "kept", "remove", u >>

\* RegisterListener without the test `listener not in self._listeners`.
RegisterListenerUnchecked(o) ==
  /\ ApiCall
  /\ o \in Observers
  /\ listeners' = Append(listeners, o)
  /\ trip' = << >>
  /\ UNCHANGED << questions, qkeys, watched, data_file, watched_file, data,
                  stop_event, refresh_event, last_refresh_time, interval_elapsed,
                  pc, batch, idx, href, changes, pu_result, merged, pre, raced, persist >>

\* register_listener(o): o is a DataListener and not in the list.
RegisterListener(o) ==
  /\ ApiCall
  /\ o \in Observers /\ o \notin Range(listeners)
  /\ listeners' = Append(listeners, o)
  /\ trip' = << >>
  /\ UNCHANGED << questions, qkeys, watched, data_file, watched_file, data,
                  stop_event, refresh_event, last_refresh_time, interval_elapsed,
                  pc, batch, idx, href, changes, pu_result, merged, pre, raced, persist >>

\* register_listener(o) raises TypeError: o is no DataListener ("x"), or o is
\* in the list already.
RegisterListenerRaises(o) ==
  /\ ApiCall
  /\ ~(o \in Observers /\ o \notin Range(listeners))
  /\ trip' = << "kept", "register", o >>
  /\ UNCHANGED << shared, pc, batch, idx, href, changes, pu_result, merged, pre, raced, persist >>

\* unregister_listener(o): list.remove takes out the first (the only) o; an
\* o that is not in the list is left alone.
UnregisterListener(o) ==
  /\ ApiCall
  /\ listeners' = IF o \in Range(listeners)
                  THEN SelectSeq(listeners, LAMBDA x : x # o)
                  ELSE listeners
  /\ trip' = IF o \in Range(listeners) THEN << >> ELSE << "kept", "unregister", o >>
  /\ UNCHANGED << questions, qkeys, watched, data_file, watched_file, data,
                  stop_event, refresh_event, last_refresh_time, interval_elapsed,
                  pc, batch, idx, href, changes, pu_result, merged, pre, raced, persist >>

ApiInit ==
  /\ questions = [u \in Ids |-> << >>]
  /\ qkeys = << >>
  /\ watched = << >>
  /\ data_file = NoFile
  /\ watched_file = NoFile
  /\ listeners = << >>
  /\ data = << >>
  /\ stop_event = FALSE
  /\ refresh_event = FALSE
  /\ last_refresh_time = 0
  /\ interval_elapsed = FALSE
  /\ pc = [t \in Threads |-> IF t = "w" THEN "unstarted" ELSE "idle"]
  /\ batch = [t \in Threads |-> << >>]
  /\ idx = [t \in Threads |-> 1]
  /\ href = [t \in Threads |-> "none"]
  /\ changes = [t \in Threads |-> NoChanges]
  /\ pu_result = [t \in Threads |-> "none"]
  /\ fg_calls = 0
  /\ merged = [u \in Ids |-> << >>]
  /\ pre = [t \in Threads |-> EmptyStore]
  /\ raced = FALSE
  /\ persist = "no"
  /\ trip = << >>

ApiNext ==
  \/ Refresh \/ RefreshSet
  \/ Fetch("f") \/ FetchFail("f")
  \/ UqItem("f") \/ UqhNew("f") \/ UqhAppend("f") \/ UqhPop("f")
  \/ SaveData("f") \/ SaveDataFail("f")
  \/ Notify("f") \/ NotifyFail("f") \/ NotifyDone("f")
  \/ \E u \in Ids : ApiAddToWatched(u) \/ ApiRemoveFromWatched(u)
  \/ SaveWatched \/ SaveWatchedFail
  \/ \E o \in Observers \cup {"x"} :
       RegisterListener(o) \/ RegisterListenerRaises(o) \/ UnregisterListener(o)

ApiSpec == ApiInit /\ [][ApiNext]_vars

\* ------------------------------------------------------------ claims
\* The last n entries of s.
LastN(s, n) == IF Len(s) > n THEN SubSeq(s, Len(s) - n + 1, Len(s)) ELSE s

\* C1: when stop() has returned to its caller (GUI.stop went on to close the
\* window), the DataTracker thread has left its loop, so that it mutates
\* nothing afterwards.
C1_StopReturnsAfterWorkerExit == pc["f"] = "closed" => pc["w"] = "exited"

\* C2: mutations are serialized: the two threads are never both inside a
\* merge, add_to_watched or remove_from_watched that has not finished its
\* file write.
C2_MutationsSerialized == ~(pc["w"] \in WritePcs /\ pc["f"] \in WritePcs)

\* C3: a projection (refresh_list called by GUI.run) taken while the other
\* thread merges a batch sees the Store as it was before the merge or as it is
\* after it, and meets no key whose history is empty.
C3_NoTornRead ==
  [][(pc["f"] = "gui_run" /\ pc'["f"] # "gui_run")
       => (~Torn /\ ~GetQuestionListRaises(Store))]_vars

\* C4: whenever no history is between its append and its trim, and no two
\* merges have overlapped, every url's history is at most max_history long and
\* holds exactly the last min(k, max_history) snapshots merged for the url,
\* oldest first (k = the number of snapshots merged for it).
C4_HistoryIsWindow ==
  (~raced /\ \A t \in Threads : pc[t] # "uqh_trim")
    => \A u \in Ids : /\ Len(questions[u]) <= MaxHistory
                      /\ questions[u] = LastN(merged[u], MaxHistory)

\* C4's case: a url was merged more often than max_history, so that the
\* oldest snapshot has been dropped.
C4_Witness ==
  /\ ~raced
  /\ \A t \in Threads : pc[t] # "uqh_trim"
  /\ \E u \in Ids : Len(merged[u]) > MaxHistory /\ Len(questions[u]) = MaxHistory

\* C5: while update_questions notifies the listeners (and no other merge has
\* overlapped it), the items file holds the Store the listeners can read.
C5_PersistBeforeNotify ==
  \A t \in Threads :
    (pc[t] = "nl_loop" /\ ~raced) => data_file = Written(Store)

\* C5's case: a listener is about to be called after a merge that changed the
\* Store.
C5_Witness ==
  /\ ~raced
  /\ pc["w"] = "nl_loop" /\ idx["w"] <= Len(listeners)
  /\ Len(qkeys) = 2

\* C6: a broadcast ends only when every registered listener has been called,
\* and it ends without an exception reaching the caller of update_questions.
C6_ObserverFailureIsolated ==
  [][\A t \in Threads :
       (pc[t] = "nl_loop" /\ pc'[t] # "nl_loop")
         => (idx[t] > Len(listeners) /\ pu_result'[t] = "updated")]_vars

\* C7: once refresh() has set the refresh signal while the DataTracker thread
\* is in its interval wait, the wait is over whether or not the interval has
\* elapsed.
C7_RefreshEndsWait == (pc["w"] = "wait" /\ refresh_event) => WaitOver

\* C8, as claimed: refresh() has returned to its caller whenever the update
\* cycle it triggered is at its fetch, merge, persist or notify step.
C8_RefreshDoesNotBlock == pc["f"] \notin CyclePcs

\* C8, amended: when refresh() reaches its last statement (setting the
\* refresh signal, after which it returns), the update cycle it ran in the
\* calling thread is over: perform_update has printed its outcome.
C8_RefreshReturnsAfterCycle ==
  pc["f"] = "rf_set" => pu_result["f"] \in {"updated", "error"}

\* C8's case: refresh() is about to return after a cycle that merged a batch,
\* wrote the file and notified the listeners.
C8_Witness ==
  /\ pc["f"] = "rf_set" /\ pu_result["f"] = "updated"
  /\ data_file = Written(Store) /\ qkeys # << >>

\* C9: the step in which fetch_data fails leaves the Store, the Watch Set and
\* both files unchanged, enters neither the merge nor the broadcast, has the
\* error printed by perform_update, and takes the DataTracker thread to its
\* wait (the GUI thread back into refresh); a waiting DataTracker thread goes
\* on to its loop test, where it starts the next cycle unless stopped.
C9_FetchFailureSkipsCycle ==
  [][\A t \in Threads :
       /\ (pc[t] = "pu_fetch" /\ pc'[t] # "pu_fetch" /\ pc'[t] # "uq_item")
            => /\ UNCHANGED << questions, qkeys, watched, data_file, watched_file >>
               /\ pu_result'[t] = "error"
               /\ pc'[t] = IF t = "w" THEN "wait" ELSE "rf_set"
       /\ (pc[t] = "wait" /\ pc'[t] # "wait") => pc'[t] = "run_clear"
       /\ (pc[t] = "run_clear" /\ pc'[t] # "run_clear") => pc'[t] = "run_test"
       /\ (pc[t] = "run_test" /\ pc'[t] # "run_test")
            => pc'[t] = IF stop_event THEN "exited" ELSE "pu_fetch"]_vars

\* C9's case: the first cycle failed at its fetch (nothing was ever merged)
\* and the DataTracker thread has started its second cycle.
C9_Witness ==
  /\ pc["f"] = "gui_run" /\ qkeys = << >>
  /\ pc["w"] = "pu_fetch" /\ last_refresh_time = 2

\* C10: the step in which the items-file write fails leaves the histories as
\* the merge made them (the Store the batch gives when merged into the Store
\* the merge began with, unless another merge overlapped), calls no listener,
\* has the error printed by perform_update and takes the DataTracker thread
\* to its wait, from where the next cycle starts as in C9.
C10_SaveFailureKeepsMerge ==
  [][\A t \in Threads :
       (pc[t] = "uq_save" /\ pc'[t] # "uq_save" /\ pc'[t] # "nl_loop")
         => /\ UNCHANGED << questions, qkeys >>
            /\ ~raced => [keys |-> qkeys', hist |-> questions'] = MergeAll(pre[t], batch[t])
            /\ pu_result'[t] = "error"
            /\ pc'[t] = IF t = "w" THEN "wait" ELSE "rf_set"]_vars

\* C10's case: the write of the first merge failed, the Store holds the
\* merged batch, and the DataTracker thread has started its second cycle.
C10_Witness ==
  /\ pc["f"] = "gui_run" /\ qkeys # << >> /\ data_file.state # "written"
  /\ pc["w"] = "pu_fetch" /\ last_refresh_time = 2

\* C11: in the broadcast that follows a merge, every call of a listener's
\* update hands over the updated state (the Store as the merge left it), and
\* the broadcast ends only when each registered listener has been called, in
\* registration order (idx runs over the listeners from the first to the
\* last).
C11_BroadcastPassesStore ==
  [][\A t \in Threads :
       /\ (pc[t] = "nl_loop" /\ idx'[t] = idx[t] + 1) => UpdateArg = << Store >>
       /\ (pc[t] = "nl_loop" /\ pc'[t] # "nl_loop") => idx[t] > Len(listeners)]_vars

\* The urls of a list of snapshots; the place of x in the sequence s.
ListUrls(l) == [i \in 1..Len(l) |-> l[i].question_url]
Pos(s, x) == CHOOSE i \in 1..Len(s) : s[i] = x

\* What get_question_list returns now, as urls.
Projected == ListUrls(GetQuestionList(Store, WatchedKeys))

\* Watched with a history in the Store.
Pinned(u) == IsWatched(u) /\ HasKey(u) /\ questions[u] # << >>

\* C12: in the list get_question_list returns, every url that is watched and
\* has a history stands before every url that is not watched, whatever the
\* scores, and the watched urls stand in the order of the Watch Set.
C12_WatchedFirst ==
  ~GetQuestionListRaises(Store) =>
    \A i, j \in 1..Len(Projected) :
      /\ (Pinned(Projected[i]) /\ ~IsWatched(Projected[j])) => i < j
      /\ (Pinned(Projected[i]) /\ Pinned(Projected[j]) /\ i < j)
           => Pos(WatchedKeys, Projected[i]) < Pos(WatchedKeys, Projected[j])

\* C12's case: "a" is watched and "b" is not (or was watched later), the sort
\* by score puts "b" first, and the list starts with "a".
C12_Witness ==
  /\ pc["f"] = "idle"
  /\ ~GetQuestionListRaises(Store)
  /\ SortedKeys(Store) = << "b", "a" >>
  /\ WatchedKeys \in { << "a" >>, << "a", "b" >> }
  /\ Projected = << "a", "b" >>

\* The score of the snapshot get_question_list outputs for u.
LatestScore(u) == Last(questions[u]).potential_score

\* C13: in the list get_question_list returns, the urls that are not watched
\* stand in descending order of the potential_score of their latest snapshot
\* (the one the list holds), equal scores in the key order of the Store.
\* Stated of the lists a caller gets between two operations.
C13_UnwatchedByLatestScore ==
  (pc["f"] = "idle" /\ ~GetQuestionListRaises(Store)) =>
    \A i, j \in 1..Len(Projected) :
      (i < j /\ ~IsWatched(Projected[i]) /\ ~IsWatched(Projected[j]))
        => \/ LatestScore(Projected[i]) > LatestScore(Projected[j])
           \/ /\ LatestScore(Projected[i]) = LatestScore(Projected[j])
              /\ Pos(qkeys, Projected[i]) < Pos(qkeys, Projected[j])

\* The Store as the items before the i-th of thread t's batch leave it, the
\* merge run alone; the entries of a change list that carry url u; the item
\* of b before the j-th that carries the same url.
Before(t, i) == MergeAll(pre[t], SubSeq(batch[t], 1, i - 1))
Count(s, u) == Cardinality({ k \in 1..Len(s) : s[k].question_url = u })
PrevSame(b, j) ==
  CHOOSE k \in 1..(j - 1) :
    /\ b[k].question_url = b[j].question_url
    /\ \A m \in (k + 1)..(j - 1) : b[m].question_url # b[j].question_url

\* C14, as claimed: when the loop of update_questions has ended, every item
\* whose url was not a key of the Store before the item was processed has
\* exactly one entry for its url in changes['new'] and none in
\* changes['updated'], whatever the batch.
C14_NewOnceNeverUpdated ==
  \A t \in Threads :
    (pc[t] = "uq_save" /\ ~raced) =>
      \A i \in 1..Len(batch[t]) :
        LET u == batch[t][i].question_url
        IN u \notin Range(Before(t, i).keys)
             => /\ Count(changes[t].new, u) = 1
                /\ Count(changes[t].updated, u) = 0

\* C14, amended: such an item is itself the one entry for its url in
\* changes['new']; changes['updated'] holds an entry for the url only for the
\* later items of the same batch that carry the url again, one for each whose
\* totals differ from the item of that url before it, and so none when the
\* batch carries the url once.
C14_NewOnceUpdatedByRepeats ==
  \A t \in Threads :
    (pc[t] = "uq_save" /\ ~raced) =>
      \A i \in 1..Len(batch[t]) :
        LET b == batch[t]
            u == b[i].question_url
            changed == { j \in (i + 1)..Len(b) :
                           /\ b[j].question_url = u
                           /\ \/ b[j].view_total # b[PrevSame(b, j)].view_total
                              \/ b[j].answer_total # b[PrevSame(b, j)].answer_total }
        IN u \notin Range(Before(t, i).keys)
             => /\ Count(changes[t].new, u) = 1
                /\ \E k \in 1..Len(changes[t].new) : changes[t].new[k] = b[i]
                /\ Count(changes[t].updated, u) = Cardinality(changed)

\* C14's case: a batch that carries a url new to the Store twice has been
\* merged: the url is in changes['new'] once and in changes['updated'] once.
C14_Witness ==
  \E t \in Threads :
    /\ pc[t] = "uq_save" /\ ~raced
    /\ Len(batch[t]) = 2
    /\ batch[t][1].question_url = batch[t][2].question_url
    /\ batch[t][1].question_url \notin Range(pre[t].keys)
    /\ Count(changes[t].new, batch[t][1].question_url) = 1
    /\ Count(changes[t].updated, batch[t][1].question_url) = 1

\* C15: when update_questions processes an item whose url has a history, it
\* adds an entry to changes['updated'] if and only if the item's view_total
\* or answer_total differs from that of the last snapshot of the history, the
\* entry holds exactly the two differences, nothing is added to
\* changes['new'], and in both cases the item is then appended to the history.
C15_UpdatedIffChanged ==
  [][\A t \in Threads :
       LET u == Url(t)
           old == Last(questions[u])
           dv == Item(t).view_total - old.view_total
           da == Item(t).answer_total - old.answer_total
       IN /\ (pc[t] = "uq_item" /\ pc'[t] # "uq_item" /\ HasKey(u) /\ questions[u] # << >>)
               => /\ changes'[t].new = changes[t].new
                  /\ changes'[t].updated =
                       IF dv # 0 \/ da # 0
                       THEN Append(changes[t].updated,
                                   [question_url |-> u, view_increment |-> dv,
                                    answer_increment |-> da])
                       ELSE changes[t].updated
                  /\ pc'[t] = "uqh_append"
          /\ (pc[t] = "uqh_append" /\ pc'[t] # "uqh_append" /\ ~raced)
               => questions'[u] = Append(questions[u], Item(t))]_vars

\* C15's case: an item whose totals equal those of the last snapshot has been
\* merged: no entry in changes['updated'] or changes['new'], and the history
\* holds one snapshot more.
C15_Witness ==
  \E t \in Threads :
    /\ pc[t] = "uq_save" /\ ~raced
    /\ Len(batch[t]) = 1
    /\ LET q == batch[t][1]
           u == q.question_url
       IN /\ pre[t].hist[u] # << >>
          /\ Last(pre[t].hist[u]).view_total = q.view_total
          /\ Last(pre[t].hist[u]).answer_total = q.answer_total
          /\ changes[t] = NoChanges
          /\ Len(questions[u]) = Len(pre[t].hist[u]) + 1

\* C16: when add_to_watched(u) is the call right after a remove_from_watched(u)
\* that took u out of the Watch Set, and u is a key of the Store, then u is
\* watched again and the snapshot the Watch Set holds for it is the last of
\* u's history at the time of the add_to_watched; the write of the watched
\* file that follows stores that Watch Set.
C16_RemoveThenAdd ==
  [][\A u \in Ids :
       /\ (ApiAddToWatched(u) /\ trip # << >> /\ trip[1] = "removed"
             /\ trip[2].url = u /\ HasKey(u))
            => /\ \E i \in 1..Len(watched') :
                    watched'[i] = [url |-> u, snap |-> Last(questions[u])]
               /\ pc'["f"] = "w_save"
       /\ (SaveWatched /\ trip # << >> /\ trip[1] = "readded" /\ trip[2].url = u)
            => /\ watched_file' = Written(watched)
               /\ \E i \in 1..Len(watched) :
                    watched[i] = [url |-> u, snap |-> Last(questions[u])]]_vars

\* C16's case: u was watched, merged again, taken out of the Watch Set and
\* added again by the next call; the file is written and the snapshot held is
\* not the one the earlier watch had captured.
C16_Witness ==
  /\ pc["f"] = "idle"
  /\ trip # << >> /\ trip[1] = "readded"
  /\ IsWatched(trip[2].url)
  /\ WatchedEntry(trip[2].url).snap # trip[2].snap
  /\ WatchedEntry(trip[2].url).snap = Last(questions[trip[2].url])
  /\ watched_file = Written(watched)

\* C17: add_to_watched(u) for a u that is watched already, or is no key of the
\* Store, returns without an exception and leaves the Watch Set (the snapshot
\* held for u included), the Store and both files as they were, and starts
\* no write; so does remove_from_watched(u) for a u that is not watched.
C17_WatchNoOps ==
  [][\A u \in Ids :
       /\ (ApiAddToWatched(u) /\ (IsWatched(u) \/ ~HasKey(u)))
            => /\ UNCHANGED << watched, questions, qkeys, watched_file, data_file >>
               /\ ~AddToWatchedRaises(u)
               /\ pc'["f"] = "idle"
       /\ (ApiRemoveFromWatched(u) /\ ~IsWatched(u))
            => /\ UNCHANGED << watched, questions, qkeys, watched_file, data_file >>
               /\ pc'["f"] = "idle"]_vars

\* C17's case: add_to_watched was called for a watched url whose history has
\* grown since it was watched, and the snapshot held is still the one
\* captured then.
C17_Witness ==
  /\ pc["f"] = "idle"
  /\ trip # << >> /\ trip[1] = "kept" /\ trip[2] = "add"
  /\ IsWatched(trip[3])
  /\ WatchedEntry(trip[3]).snap # Last(questions[trip[3]])
  /\ watched_file = Written(watched)

\* No element of s occurs twice.
NoDuplicates(s) == \A i, j \in 1..Len(s) : s[i] = s[j] => i = j

\* C18: the list of listeners never holds a listener twice: a call of
\* register_listener(o) for an o that is in the list leaves the list as it
\* was (it raises TypeError); a call of unregister_listener(o) for an o that
\* is not in the list leaves the list as it was, and returns.
C18_RegistryHoldsEachOnce ==
  [][/\ NoDuplicates(listeners')
     /\ \A o \in Observers :
          /\ ((RegisterListener(o) \/ RegisterListenerRaises(o)) /\ o \in Range(listeners))
               => UNCHANGED listeners
          /\ (UnregisterListener(o) /\ o \notin Range(listeners))
               => (UNCHANGED listeners /\ pc'["f"] = "idle")]_vars

\* C18's case: both listeners are registered and the last call was a
\* register_listener for one of them.
C18_Witness ==
  /\ trip # << >> /\ trip[1] = "kept" /\ trip[2] = "register"
  /\ trip[3] \in Range(listeners)
  /\ Len(listeners) = 2

\* The batch b in every order of its items.
Reorderings(b) ==
  { [i \in 1..Len(b) |-> b[p[i]]] : p \in Permutations(1..Len(b)) }

\* The urls of b that are no keys in ks, each once, in the order of b.
RECURSIVE NewUrls(_, _)
NewUrls(ks, b) ==
  IF b = << >> THEN << >>
  ELSE LET u == Head(b).question_url
       IN IF u \in Range(ks) THEN NewUrls(ks, Tail(b))
          ELSE << u >> \o NewUrls(Append(ks, u), Tail(b))

\* C19, as claimed: when the loop of update_questions has ended, the Store
\* (keys in their order, and histories) is the one that merging the same
\* items in any other order into the Store the merge began with gives.
C19_OrderIndependent ==
  \A t \in Threads :
    (pc[t] = "uq_save" /\ ~raced) =>
      \A p \in Reorderings(batch[t]) : MergeAll(pre[t], p) = Store

\* C19, amended: merging the items in any other order gives the same set of
\* keys and, for every url the batch carries at most once, the same history;
\* the keys new to the Store follow the old ones in the order of the batch
\* (and a url the batch carries twice gets its items in the order of the
\* batch), so the key order and such a history depend on the order.
C19_OrderIndependentPerUrl ==
  \A t \in Threads :
    (pc[t] = "uq_save" /\ ~raced) =>
      /\ qkeys = pre[t].keys \o NewUrls(pre[t].keys, batch[t])
      /\ \A p \in Reorderings(batch[t]) :
           LET r == MergeAll(pre[t], p)
           IN /\ Range(r.keys) = Range(qkeys)
              /\ r.keys = pre[t].keys \o NewUrls(pre[t].keys, p)
              /\ \A u \in Ids : Count(batch[t], u) <= 1 => r.hist[u] = questions[u]

\* C19's case: a batch of two urls, both new to the Store, has been merged;
\* the other order gives the same histories and the other key order.
C19_Witness ==
  \E t \in Threads :
    /\ pc[t] = "uq_save" /\ ~raced
    /\ Len(batch[t]) = 2
    /\ batch[t][1].question_url # batch[t][2].question_url
    /\ LET r == MergeAll(pre[t], << batch[t][2], batch[t][1] >>)
       IN r.hist = questions /\ r.keys # qkeys /\ Len(qkeys) = 2

\* C20: once stop() has set the stop event, the DataTracker thread leaves its
\* loop (fetch_data and the listeners returning): a wait it is in, or enters,
\* can return without the interval having elapsed, and from the loop test
\* that finds the event set no new cycle starts.
C20_StopEndsWorker ==
  /\ stop_event ~> (pc["w"] = "exited")
  /\ []((pc["w"] = "wait" /\ stop_event) => ENABLED Wait)
  /\ [][(pc["w"] = "run_test" /\ stop_event) => pc'["w"] \in {"run_test", "exited"}]_vars

\* C20's case: stop() came after the DataTracker thread had started a cycle,
\* and the thread has left its loop with cycles to spare.
C20_Witness ==
  /\ stop_event /\ pc["f"] = "closed"
  /\ pc["w"] = "exited"
  /\ last_refresh_time >= 1 /\ last_refresh_time < MaxCycles

\* C21: the write that completes a merge (no other merge overlapping it)
\* leaves the items file equal to the whole Store, whether or not an earlier
\* write failed: the file then holds, for every url, the last max_history
\* snapshots ever merged for it, those of a merge whose write failed
\* included.
C21_WriteHoldsWholeStore ==
  [][\A t \in Threads :
       (pc[t] = "uq_save" /\ pc'[t] = "nl_loop" /\ ~raced)
         => /\ data_file' = Written([keys |-> qkeys', hist |-> questions'])
            /\ \A u \in Ids :
                 data_file'.data[1].hist[u] = LastN(merged[u], MaxHistory)]_vars

\* C21's case: the write of an earlier merge failed, that merge had added a
\* key and snapshots the merge just written did not carry, and the file
\* holds the Store.
C21_Witness ==
  \E t \in Threads :
    /\ pc[t] = "nl_loop" /\ ~raced
    /\ persist = "healed"
    /\ data_file = Written(Store)
    /\ \E u \in Ids : Count(batch[t], u) = 0 /\ questions[u] # << >>

\* C22: the list get_question_list returns holds, for every url with a
\* non-empty history, watched or not, exactly one entry, which is the last
\* snapshot of that history, and holds nothing else.
C22_OneLatestEntryEach ==
  ~GetQuestionListRaises(Store) =>
    LET l == GetQuestionList(Store, WatchedKeys)
    IN /\ \A u \in Ids :
            (HasKey(u) /\ questions[u] # << >>)
              => /\ Count(l, u) = 1
                 /\ \E i \in 1..Len(l) : l[i] = Last(questions[u])
       /\ \A i \in 1..Len(l) :
            HasKey(l[i].question_url) /\ questions[l[i].question_url] # << >>

\* C22's case: two urls have a history, one of them watched and merged more
\* than once, and the list holds the two latest snapshots.
C22_Witness ==
  /\ pc["f"] = "idle"
  /\ ~GetQuestionListRaises(Store)
  /\ Len(qkeys) = 2 /\ Len(watched) = 1
  /\ Len(questions[watched[1].url]) = 2
  /\ Len(GetQuestionList(Store, WatchedKeys)) = 2

====
